---- MODULE Spec2Model ----
(***************************************************************************)
(* Offline (auto) mining accrual of the miner game backend.                *)
(*                                                                         *)
(* The database holds one player_data row and the player's                 *)
(* offline_mining_sessions rows.  Every service handler works on Sequelize *)
(* instances: copies of the rows taken when the handler read them.  An     *)
(* instance.update(...) writes the changed fields as absolute values, an   *)
(* instance.increment / decrement is executed by the database on the row   *)
(* (column = column +/- by) and, on the mysql dialect the repository       *)
(* configures, leaves the instance's copy as it was.  A handler gives up   *)
(* control at every await of a query, so the handlers of concurrent        *)
(* requests interleave query by query; one action below is one query       *)
(* together with the synchronous code that follows it.                     *)
(*                                                                         *)
(* Times are milliseconds, as Date.getTime() gives them.  The associations *)
(* a session is loaded with are taken to carry the attributes the methods  *)
(* called on them read.  An item's generated name is left out (it is drawn *)
(* at random and nothing reads it); items_found is kept as the list the    *)
(* JSON text stands for.                                                   *)
(***************************************************************************)
EXTENDS Integers, Sequences, FiniteSets, TLC

VARIABLES
    now,        \* the wall clock (new Date().getTime())
    player,     \* the player_data row
    sessions,   \* the offline_mining_sessions rows, by id
    req,        \* per request: the handler it runs, its position, its instances
    prev,       \* the last handler that returned: what it was and what it returned
    calls,      \* handlers called so far
    carry       \* two copies of one energy state, for comparing ways to regenerate;
                \* or the cycles counted for a session left alone

vars == <<now, player, sessions, req, prev, calls, carry>>

(* ------------------------------ bounds -------------------------------- *)
MaxHalfCycles == 4      \* the clock runs to MaxHalfCycles half mining intervals
MaxRaceHalfCycles == 2  \* ... and to this many while requests are served concurrently
MaxCalls == 3           \* handlers called in one run
MaxTiers == 1           \* rarity tiers whose drop roll may succeed
MaxHalfRecoveries == 2  \* the clock of the energy runs, in half recovery intervals
MaxEnergyCalls == 2      \* handlers called in one run of the energy requests
AwaySlack == 4           \* steps around the longest absence and the energy that pays for it
MaxConsume == 3          \* the largest energy held when consumeEnergy is called
MaxCarryEnergy == 30    \* the largest energy a reconciliation run starts from

(* --------------------------- configuration ---------------------------- *)
\* AUTO_MINING.INTERVAL; calculateOfflineRewards reads it as MINING_INTERVAL
CycleInterval == 10000
RecoveryInterval == 300000
RecoveryAmount == 1
MinLevelRequired == 5
MaxLevel == 100
MaxEnergyDefault == 100
LevelUpCoins == 50
MaxOfflineHours == 24    \* AUTO_MINING.MAX_OFFLINE_HOURS; no code reads it
InfoEnergyCost == 1      \* the energy getOfflineMiningInfo asks for in canStart

Null == -1
PlayerId == "player"
Reqs == {1, 2}

Min(a, b) == IF a <= b THEN a ELSE b
Max(a, b) == IF a >= b THEN a ELSE b

(* The scenes table: a scene the player may mine in, one that needs a      *)
(* higher level, and one that was switched off.                            *)
Scenes ==
    [i \in {1, 2, 3} |->
        [required_level  |-> IF i = 2 THEN 6 ELSE 1,
         energy_cost     |-> 2,
         base_coins_min  |-> 1,
         base_coins_max  |-> 2,
         base_experience |-> 10,
         is_active       |-> i # 3]]

SceneIds == {1, 2, 3, 4}    \* 4 is the id of no scene

Rarities == <<"common", "uncommon", "rare", "epic", "legendary">>
RarityMultiplier == <<1, 2, 5, 10, 25>>

ZeroRewards == [cycles |-> 0, coins |-> 0, experience |-> 0, energy |-> 0, items |-> <<>>]

NoSession == [id |-> 0]    \* no session instance loaded

NoItem == [energy_restore |-> 0, max_energy_increase |-> 0, price |-> 0]

\* the consumables on sale (rows of shop_items; the source ships none)
ShopItems ==
    {[energy_restore |-> 10, max_energy_increase |-> 0, price |-> 10],
     [energy_restore |-> 0, max_energy_increase |-> 5, price |-> 10],
     [energy_restore |-> 10, max_energy_increase |-> 5, price |-> 10]}

IdleReq ==
    [kind |-> "idle", pc |-> "idle", player |-> Null, session |-> NoSession,
     item |-> NoItem,
     scene |-> Null, rewards |-> ZeroRewards, called |-> Null, at |-> Null,
     result |-> "none", thrown |-> "none", pre |-> Null]

NoPrev ==
    [kind |-> "none", result |-> "none", called |-> Null, at |-> Null,
     rewards |-> ZeroRewards]

(* ------------------------ PlayerData (instance) ----------------------- *)
AlwaysEnough(p, requiredEnergy) == TRUE

hasEnoughEnergy(p, requiredEnergy) == p.current_energy >= requiredEnergy

AlwaysUnlocked(p) == TRUE

isAutoMiningUnlocked(p) == p.level >= MinLevelRequired

calculateEnergyRecovery(p, t) ==
    ((t - p.last_energy_update) \div RecoveryInterval) * RecoveryAmount

RECURSIVE Pow(_, _)
Pow(b, n) == IF n = 0 THEN 1 ELSE b * Pow(b, n - 1)

\* floor(BASE_EXP * EXP_MULTIPLIER ^ (level - 1)), with 1.5 = 3/2
getRequiredExp(level) == (100 * Pow(3, level - 1)) \div Pow(2, level - 1)

\* the while loop of addExperience: the level reached with exp at hand
RECURSIVE LevelAfter(_, _)
LevelAfter(level, exp) ==
    IF exp >= getRequiredExp(level) /\ level < MaxLevel
    THEN LevelAfter(level + 1, exp - getRequiredExp(level))
    ELSE level

\* the beforeUpdate hook of player_data, on the instance about to be saved
PlayerBeforeUpdate(p) ==
    [p EXCEPT !.current_energy = IF @ > p.max_energy THEN p.max_energy ELSE @,
              !.level = IF @ > MaxLevel THEN MaxLevel ELSE @]

\* instance.update(values): the instance after set(values) and the hook
PlayerSet(inst, values) ==
    PlayerBeforeUpdate(
        [f \in DOMAIN inst |-> IF f \in DOMAIN values THEN values[f] ELSE inst[f]])

\* ... and the row after the UPDATE of the fields that changed on the instance
SaveChanged(row, inst, newInst) ==
    [f \in DOMAIN row |-> IF newInst[f] # inst[f] THEN newInst[f] ELSE row[f]]

\* the values PlayerData.recoverEnergy(amount) passes to update
RecoverEnergyValues(p, amount, t) ==
    [current_energy |-> Min(p.current_energy + amount, p.max_energy),
     last_energy_update |-> t]

\* PlayerData.autoRecoverEnergy at time t: the instance after it
autoRecoverEnergy(p, t) ==
    LET recoveryAmount == calculateEnergyRecovery(p, t) IN
    IF recoveryAmount > 0 /\ p.current_energy < p.max_energy
    THEN PlayerSet(p, RecoverEnergyValues(p, recoveryAmount, t))
    ELSE p

\* the values PlayerData.addExperience(amount) passes to update
AddExperienceValues(p, amount) ==
    LET newExperience == p.experience + amount
        newLevel == LevelAfter(p.level, newExperience)
        levelUpReward == (newLevel - p.level) * LevelUpCoins
    IN  IF newLevel > p.level
        THEN [experience |-> newExperience,
              total_experience_gained |-> p.total_experience_gained + amount,
              level |-> newLevel,
              highest_level_reached |-> Max(p.highest_level_reached, newLevel),
              coins |-> p.coins + levelUpReward,
              total_coins_earned |-> p.total_coins_earned + levelUpReward]
        ELSE [experience |-> newExperience,
              total_experience_gained |-> p.total_experience_gained + amount]

(* ------------------------------- Scene -------------------------------- *)
isAccessibleByPlayer(sc, playerLevel) ==
    sc.is_active /\ playerLevel >= sc.required_level

\* floor(x * (1 + (playerLevel - required_level) * 0.05)), then the bonus of 1.2
Scaled(sc, x, playerLevel, hasBonus) ==
    LET byLevel == (x * (100 + (playerLevel - sc.required_level) * 5)) \div 100
    IN  IF hasBonus THEN (byLevel * 12) \div 10 ELSE byLevel

\* floor(base_coins_min * multiplier * (0.8 + Math.random() * 0.4))
ItemValues(sc, tier) ==
    LET bm == sc.base_coins_min * RarityMultiplier[tier]
    IN  ((8 * bm) \div 10) .. ((12 * bm - 1) \div 10)

\* calculateItemDrops: every tier is rolled on its own, in the order of RARITY
RECURSIVE ItemDrops(_, _)
ItemDrops(sc, n) ==
    IF n = 0 THEN {<<>>}
    ELSE {d \o x : d \in ItemDrops(sc, n - 1),
                   x \in {<<>>} \cup
                         {<<[rarity |-> Rarities[n], value |-> v]>> :
                              v \in ItemValues(sc, n)}}

\* calculateMiningReward: the outcomes Math.random() can give
calculateMiningReward(sc, playerLevel, hasBonus) ==
    {[coins      |-> Scaled(sc, c, playerLevel, hasBonus),
      experience |-> Scaled(sc, sc.base_experience, playerLevel, hasBonus),
      items      |-> d] :
        c \in sc.base_coins_min .. sc.base_coins_max,
        d \in ItemDrops(sc, Min(MaxTiers, Len(Rarities)))}

(* ------------------------ OfflineMiningSession ------------------------ *)
RECURSIVE SumRolls(_, _)
SumRolls(rolls, n) ==
    IF n = 0 THEN [coins |-> 0, experience |-> 0, items |-> <<>>]
    ELSE LET s == SumRolls(rolls, n - 1)
         IN  [coins      |-> s.coins + rolls[n].coins,
              experience |-> s.experience + rolls[n].experience,
              items      |-> s.items \o rolls[n].items]

possibleCycles(s, t) == (t - s.last_calculation) \div CycleInterval

maxCyclesByEnergy(p, sc) == p.current_energy \div sc.energy_cost

actualCyclesByTime(s, p, sc, t) == possibleCycles(s, t)

actualCycles(s, p, sc, t) == Min(possibleCycles(s, t), maxCyclesByEnergy(p, sc))

\* the cycles calculateOfflineRewards returns
offlineCycles(s, p, sc, t) ==
    IF possibleCycles(s, t) <= 0 THEN 0
    ELSE IF actualCycles(s, p, sc, t) <= 0 THEN 0
    ELSE actualCycles(s, p, sc, t)

calculateOfflineRewardsUnitEnergy(s, p, sc, t) ==
    IF possibleCycles(s, t) <= 0 THEN {ZeroRewards}
    ELSE IF actualCycles(s, p, sc, t) <= 0 THEN {ZeroRewards}
    ELSE LET k == actualCycles(s, p, sc, t)
         IN  {[cycles     |-> k,
               coins      |-> SumRolls(rolls, k).coins,
               experience |-> SumRolls(rolls, k).experience,
               energy     |-> k,
               items      |-> SumRolls(rolls, k).items] :
                  rolls \in [1 .. k -> calculateMiningReward(sc, p.level, s.bonus_applied)]}

\* calculateOfflineRewards of session instance s, loaded with player p and scene sc
calculateOfflineRewards(s, p, sc, t) ==
    IF possibleCycles(s, t) <= 0 THEN {ZeroRewards}
    ELSE IF actualCycles(s, p, sc, t) <= 0 THEN {ZeroRewards}
    ELSE LET k == actualCycles(s, p, sc, t)
         IN  {[cycles     |-> k,
               coins      |-> SumRolls(rolls, k).coins,
               experience |-> SumRolls(rolls, k).experience,
               energy     |-> k * sc.energy_cost,
               items      |-> SumRolls(rolls, k).items] :
                  rolls \in [1 .. k -> calculateMiningReward(sc, p.level, s.bonus_applied)]}

\* the beforeUpdate hook of offline_mining_sessions
SessionBeforeUpdate(s, t) ==
    LET ended == IF ~s.is_active /\ s.end_time = Null
                 THEN [s EXCEPT !.end_time = t] ELSE s
    IN  IF ended.end_time # Null
        THEN [ended EXCEPT !.total_duration = ended.end_time - ended.start_time]
        ELSE ended

SessionSet(inst, values, t) ==
    SessionBeforeUpdate(
        [f \in DOMAIN inst |-> IF f \in DOMAIN values THEN values[f] ELSE inst[f]], t)

getSessionDuration(s, t) ==
    (IF s.end_time # Null THEN s.end_time ELSE t) - s.start_time

ApplyValuesKeepWatermark(s, rewards, t) ==
    [mining_cycles     |-> s.mining_cycles + rewards.cycles,
     coins_earned      |-> s.coins_earned + rewards.coins,
     experience_gained |-> s.experience_gained + rewards.experience,
     energy_consumed   |-> s.energy_consumed + rewards.energy,
     items_found       |-> s.items_found \o rewards.items]

\* the values applyOfflineRewards passes to this.update
ApplyValues(s, rewards, t) ==
    [mining_cycles     |-> s.mining_cycles + rewards.cycles,
     coins_earned      |-> s.coins_earned + rewards.coins,
     experience_gained |-> s.experience_gained + rewards.experience,
     energy_consumed   |-> s.energy_consumed + rewards.energy,
     items_found       |-> s.items_found \o rewards.items,
     last_calculation  |-> t]

\* the values stopSession passes to this.update
StopValues(s, t) ==
    [is_active |-> FALSE, end_time |-> t, total_duration |-> getSessionDuration(s, t)]

AnyIds(rows, playerId) ==
    {i \in 1 .. Len(rows) : rows[i].player_id = playerId}

\* findOne({ where: { player_id, is_active: true } }): the ids that match
ActiveIds(rows, playerId) ==
    {i \in 1 .. Len(rows) : rows[i].player_id = playerId /\ rows[i].is_active}

UniqueNotEnforced(rows, row) == TRUE

\* the index unique_active_session_per_player: may this row be inserted?
UniqueActiveAllows(rows, row) ==
    ~row.is_active \/ ActiveIds(rows, row.player_id) = {}

NewSessionInactive(id, playerId, sceneId, t) ==
    [id |-> id, player_id |-> playerId, scene_id |-> sceneId,
     start_time |-> t, end_time |-> Null, is_active |-> FALSE,
     total_duration |-> 0, energy_consumed |-> 0, coins_earned |-> 0,
     experience_gained |-> 0, mining_cycles |-> 0, items_found |-> <<>>,
     bonus_applied |-> FALSE, last_calculation |-> t]

\* OfflineMiningSession.create in startSession, with the column defaults
NewSession(id, playerId, sceneId, t) ==
    [id |-> id, player_id |-> playerId, scene_id |-> sceneId,
     start_time |-> t, end_time |-> Null, is_active |-> TRUE,
     total_duration |-> 0, energy_consumed |-> 0, coins_earned |-> 0,
     experience_gained |-> 0, mining_cycles |-> 0, items_found |-> <<>>,
     bonus_applied |-> FALSE, last_calculation |-> t]

(* ------------------------------ requests ------------------------------ *)
Snapshot == [player |-> player, sessions |-> sessions]

\* the handler of request r returns `result`
Finish(q, result) == [q EXCEPT !.pc = "done", !.result = result]

\* ... because of an error thrown and caught
Fail(q, error) == [q EXCEPT !.pc = "done", !.result = "Error", !.thrown = error]

Begin(kind) ==
    [IdleReq EXCEPT !.kind = kind, !.pre = Snapshot, !.called = now, !.at = now]

\* the row of the session instance of q after instance.update(values)
SavedSession(q, newInst) ==
    [sessions EXCEPT ![q.session.id] = SaveChanged(@, q.session, newInst)]

(* GameService.startOfflineMining *)
StartFindPlayer(r, sceneId) ==
    /\ req[r].pc = "idle"
    /\ calls < MaxCalls
    /\ calls' = calls + 1
    /\ req' = [req EXCEPT ![r] =
                  [Begin("start") EXCEPT !.pc = "s_active", !.player = player,
                                         !.scene = sceneId]]
    /\ UNCHANGED <<now, player, sessions, prev, carry>>

StartCheckActive(r) ==
    LET q == req[r] IN
    /\ q.pc = "s_active"
    /\ req' = [req EXCEPT ![r] =
                  IF ActiveIds(sessions, PlayerId) # {}
                  THEN Finish(q, "AlreadyActive")
                  ELSE IF ~isAutoMiningUnlocked(q.player)
                  THEN Finish(q, "AutoMiningLocked")
                  ELSE [q EXCEPT !.pc = "s_scene"]]
    /\ UNCHANGED <<now, player, sessions, prev, calls, carry>>

StartFindScene(r) ==
    LET q == req[r] IN
    /\ q.pc = "s_scene"
    /\ req' = [req EXCEPT ![r] =
                  IF q.scene \notin DOMAIN Scenes
                  THEN Finish(q, "SceneNotFound")
                  ELSE IF ~isAccessibleByPlayer(Scenes[q.scene], q.player.level)
                  THEN Finish(q, "SceneLocked")
                  ELSE IF ~hasEnoughEnergy(q.player, Scenes[q.scene].energy_cost)
                  THEN Finish(q, "InsufficientEnergy")
                  ELSE [q EXCEPT !.pc = "s_decrement"]]
    /\ UNCHANGED <<now, player, sessions, prev, calls, carry>>

\* consumeEnergy: return false without enough energy on the instance (the caller
\* goes on at `after`), else this.decrement('current_energy', { by: amount })
DecrementEnergy(r, amount, next, after) ==
    LET q == req[r] IN
    IF hasEnoughEnergy(q.player, amount)
    THEN /\ player' = [player EXCEPT !.current_energy = @ - amount]
         /\ req' = [req EXCEPT ![r] = [q EXCEPT !.pc = next, !.at = now]]
    ELSE /\ player' = player
         /\ req' = [req EXCEPT ![r] = [q EXCEPT !.pc = after, !.at = now]]

\* consumeEnergy: this.update({ last_energy_update: new Date() })
TouchEnergy(r, next) ==
    LET q == req[r]
        newInst == PlayerSet(q.player, [last_energy_update |-> q.at])
    IN  /\ player' = SaveChanged(player, q.player, newInst)
        /\ req' = [req EXCEPT ![r] = [q EXCEPT !.pc = next, !.player = newInst,
                                               !.at = now]]

StartDecrement(r) ==
    /\ req[r].pc = "s_decrement"
    /\ DecrementEnergy(r, Scenes[req[r].scene].energy_cost, "s_touch", "s_find")
    /\ UNCHANGED <<now, sessions, prev, calls, carry>>

StartTouch(r) ==
    /\ req[r].pc = "s_touch"
    /\ TouchEnergy(r, "s_find")
    /\ UNCHANGED <<now, sessions, prev, calls, carry>>

(* OfflineMiningSession.startSession *)
StartSessionFind(r) ==
    LET q == req[r] IN
    /\ q.pc = "s_find"
    /\ req' = [req EXCEPT ![r] =
                  IF ActiveIds(sessions, PlayerId) # {}
                  THEN Fail(q, "ExistingSession")
                  ELSE [q EXCEPT !.pc = "s_create", !.at = now]]
    /\ UNCHANGED <<now, player, sessions, prev, calls, carry>>

StartSessionCreate(r) ==
    LET q == req[r]
        row == NewSession(Len(sessions) + 1, PlayerId, q.scene, q.at)
    IN  /\ q.pc = "s_create"
        /\ IF UniqueActiveAllows(sessions, row)
           THEN /\ sessions' = Append(sessions, row)
                /\ req' = [req EXCEPT ![r] = Finish([q EXCEPT !.session = row], "ok")]
           ELSE /\ sessions' = sessions
                /\ req' = [req EXCEPT ![r] = Fail(q, "UniqueViolation")]
        /\ UNCHANGED <<now, player, prev, calls, carry>>

(* getActiveSession / findAll, then calculateOfflineRewards on the instance: *)
(* the session with the player and the scene it is loaded with               *)
LoadAndAlwaysApply(r, kind, whenZero) ==
    \E id \in ActiveIds(sessions, PlayerId) :
      \E rw \in calculateOfflineRewards(sessions[id], player,
                                        Scenes[sessions[id].scene_id], now) :
        req' = [req EXCEPT ![r] =
                   [Begin(kind) EXCEPT !.session = sessions[id], !.player = player,
                                       !.scene = sessions[id].scene_id,
                                       !.rewards = rw, !.pc = "a_session"]]

LoadAndCalculate(r, kind, whenZero) ==
    \E id \in ActiveIds(sessions, PlayerId) :
      \E rw \in calculateOfflineRewards(sessions[id], player,
                                        Scenes[sessions[id].scene_id], now) :
        req' = [req EXCEPT ![r] =
                   [Begin(kind) EXCEPT !.session = sessions[id], !.player = player,
                                       !.scene = sessions[id].scene_id,
                                       !.rewards = rw,
                                       !.pc = IF rw.cycles <= 0 THEN whenZero
                                              ELSE "a_session"]]

(* GameService.stopOfflineMining *)
StopGetActive(r) ==
    /\ req[r].pc = "idle"
    /\ calls < MaxCalls
    /\ calls' = calls + 1
    /\ IF ActiveIds(sessions, PlayerId) = {}
       THEN req' = [req EXCEPT ![r] = Finish(Begin("stop"), "NoActiveSession")]
       ELSE LoadAndCalculate(r, "stop", "t_close")
    /\ UNCHANGED <<now, player, sessions, prev, carry>>

(* OfflineMiningSession.processAllActiveSessions *)
SweepFindAll(r) ==
    /\ req[r].pc = "idle"
    /\ calls < MaxCalls
    /\ calls' = calls + 1
    /\ IF ActiveIds(sessions, PlayerId) = {}
       THEN req' = [req EXCEPT ![r] = Finish(Begin("sweep"), "ok")]
       ELSE LoadAndCalculate(r, "sweep", "done_ok")
    /\ UNCHANGED <<now, player, sessions, prev, carry>>

SweepNothing(r) ==
    /\ req[r].pc = "done_ok"
    /\ req' = [req EXCEPT ![r] = Finish(req[r], "ok")]
    /\ UNCHANGED <<now, player, sessions, prev, calls, carry>>

(* OfflineMiningSession.applyOfflineRewards, after calculateOfflineRewards *)
ApplyUpdateSession(r) ==
    LET q == req[r]
        newInst == SessionSet(q.session, ApplyValues(q.session, q.rewards, q.at), q.at)
    IN  /\ q.pc = "a_session"
        /\ sessions' = SavedSession(q, newInst)
        /\ req' = [req EXCEPT ![r] = [q EXCEPT !.pc = "a_decrement",
                                               !.session = newInst]]
        /\ UNCHANGED <<now, player, prev, calls, carry>>

ApplyDecrement(r) ==
    /\ req[r].pc = "a_decrement"
    /\ DecrementEnergy(r, req[r].rewards.energy, "a_touch", "a_coins")
    /\ UNCHANGED <<now, sessions, prev, calls, carry>>

ApplyTouch(r) ==
    /\ req[r].pc = "a_touch"
    /\ TouchEnergy(r, "a_coins")
    /\ UNCHANGED <<now, sessions, prev, calls, carry>>

\* addCoins: this.increment('coins', { by: amount })
ApplyAddCoins(r) ==
    /\ req[r].pc = "a_coins"
    /\ player' = [player EXCEPT !.coins = @ + req[r].rewards.coins]
    /\ req' = [req EXCEPT ![r].pc = "a_total"]
    /\ UNCHANGED <<now, sessions, prev, calls, carry>>

\* addCoins: this.increment('total_coins_earned', { by: amount })
ApplyAddTotalCoins(r) ==
    /\ req[r].pc = "a_total"
    /\ player' = [player EXCEPT !.total_coins_earned = @ + req[r].rewards.coins]
    /\ req' = [req EXCEPT ![r].pc = "a_experience"]
    /\ UNCHANGED <<now, sessions, prev, calls, carry>>

\* addExperience: this.update(updateData)
ApplyAddExperience(r) ==
    LET q == req[r]
        newInst == PlayerSet(q.player, AddExperienceValues(q.player, q.rewards.experience))
    IN  /\ q.pc = "a_experience"
        /\ player' = SaveChanged(player, q.player, newInst)
        /\ req' = [req EXCEPT ![r] = [q EXCEPT !.pc = "a_count", !.player = newInst]]
        /\ UNCHANGED <<now, sessions, prev, calls, carry>>

\* incrementMiningCount: this.increment('total_mining_count')
ApplyIncrementCount(r) ==
    LET q == req[r] IN
    /\ q.pc = "a_count"
    /\ player' = [player EXCEPT !.total_mining_count = @ + 1]
    /\ req' = [req EXCEPT ![r] =
                  IF q.kind = "stop" THEN [q EXCEPT !.pc = "t_close", !.at = now]
                  ELSE Finish(q, "ok")]
    /\ UNCHANGED <<now, sessions, prev, calls, carry>>

(* OfflineMiningSession.stopSession *)
StopClose(r) ==
    LET q == req[r]
        newInst == SessionSet(q.session, StopValues(q.session, q.at), q.at)
    IN  /\ q.pc = "t_close"
        /\ sessions' = SavedSession(q, newInst)
        /\ req' = [req EXCEPT ![r] = Finish([q EXCEPT !.session = newInst], "ok")]
        /\ UNCHANGED <<now, player, prev, calls, carry>>

(* GameService.getOfflineMiningInfo *)
InfoFindPlayer(r) ==
    /\ req[r].pc = "idle"
    /\ calls < MaxCalls
    /\ calls' = calls + 1
    /\ req' = [req EXCEPT ![r] = [Begin("info") EXCEPT !.pc = "i_active",
                                                       !.player = player]]
    /\ UNCHANGED <<now, player, sessions, prev, carry>>

InfoGetActive(r) ==
    LET q == req[r] IN
    /\ q.pc = "i_active"
    /\ IF ActiveIds(sessions, PlayerId) = {}
       THEN \* no active session: canStart is reported
            req' = [req EXCEPT ![r] =
                       Finish(q, IF /\ isAutoMiningUnlocked(q.player)
                                    /\ hasEnoughEnergy(q.player, InfoEnergyCost)
                                 THEN "canStart" ELSE "cannotStart")]
       ELSE \E id \in ActiveIds(sessions, PlayerId) :
              req' = [req EXCEPT ![r] =
                         [q EXCEPT !.pc = "i_scene", !.session = sessions[id],
                                   !.player = player,
                                   !.scene = sessions[id].scene_id]]
    /\ UNCHANGED <<now, player, sessions, prev, calls, carry>>

InfoEstimateSaving(r) ==
    LET q == req[r] IN
    /\ q.pc = "i_scene"
    /\ \E rw \in calculateOfflineRewards(q.session, q.player, Scenes[q.scene], now) :
         /\ req' = [req EXCEPT ![r] = Finish([q EXCEPT !.rewards = rw, !.at = now], "ok")]
         /\ sessions' = SavedSession(q, SessionSet(q.session,
                                       ApplyValues(q.session, rw, now), now))
    /\ UNCHANGED <<now, player, prev, calls, carry>>

\* Scene.findByPk, then the estimate: calculateOfflineRewards, nothing saved
InfoEstimate(r) ==
    LET q == req[r] IN
    /\ q.pc = "i_scene"
    /\ \E rw \in calculateOfflineRewards(q.session, q.player, Scenes[q.scene], now) :
         req' = [req EXCEPT ![r] = Finish([q EXCEPT !.rewards = rw, !.at = now], "ok")]
    /\ UNCHANGED <<now, player, sessions, prev, calls, carry>>

(* a query that the database refuses: the await throws *)
\* OfflineMiningSession.create throws; startOfflineMining catches and reports failure
StartCreateFails(r) ==
    /\ req[r].pc = "s_create"
    /\ req' = [req EXCEPT ![r] = Fail(req[r], "StorageError")]
    /\ UNCHANGED <<now, player, sessions, prev, calls, carry>>

\* a query of applyOfflineRewards throws: stopOfflineMining catches and reports
\* failure, processAllActiveSessions logs it and goes on
ApplyFails(r) ==
    LET q == req[r] IN
    /\ q.pc \in {"a_session", "a_decrement", "a_touch", "a_coins", "a_total",
                 "a_experience", "a_count"}
    /\ req' = [req EXCEPT ![r] =
                  IF q.kind = "stop" THEN Fail(q, "StorageError")
                  ELSE [Finish(q, "ok") EXCEPT !.thrown = "StorageError"]]
    /\ UNCHANGED <<now, player, sessions, prev, calls, carry>>

\* the handler's response goes out
Return(r) ==
    /\ req[r].pc = "done"
    /\ req' = [req EXCEPT ![r] = IdleReq]
    /\ UNCHANGED <<now, player, sessions, prev, calls, carry>>

\* ... and, where one request is served at a time, is noted as the last one
ReturnNoted(r) ==
    LET q == req[r] IN
    /\ q.pc = "done"
    /\ prev' = [kind |-> q.kind, result |-> q.result, called |-> q.called,
                 at |-> q.at, rewards |-> q.rewards]
    /\ req' = [req EXCEPT ![r] = IdleReq]
    /\ UNCHANGED <<now, player, sessions, calls, carry>>

\* time passes: half a mining interval
Advance(limit) ==
    /\ now + CycleInterval \div 2 <= limit * (CycleInterval \div 2)
    /\ now' = now + CycleInterval \div 2
    /\ UNCHANGED <<player, sessions, req, prev, calls, carry>>

Tick == Advance(MaxHalfCycles)

TickRace == Advance(MaxRaceHalfCycles)

(* GameService.recoverEnergy *)
RecoverFindPlayer(r) ==
    /\ req[r].pc = "idle"
    /\ calls < MaxEnergyCalls
    /\ calls' = calls + 1
    /\ req' = [req EXCEPT ![r] = [Begin("recover") EXCEPT !.pc = "r_auto",
                                                          !.player = player]]
    /\ UNCHANGED <<now, player, sessions, prev, carry>>

RecoverAuto(r) ==
    LET q == req[r]
        newInst == autoRecoverEnergy(q.player, now)
    IN  /\ q.pc = "r_auto"
        /\ player' = SaveChanged(player, q.player, newInst)
        /\ req' = [req EXCEPT ![r] = Finish([q EXCEPT !.player = newInst, !.at = now], "ok")]
        /\ UNCHANGED <<now, sessions, prev, calls, carry>>

(* GameService.performMining *)
MineFindPlayer(r, sceneId) ==
    /\ req[r].pc = "idle"
    /\ calls < MaxEnergyCalls
    /\ calls' = calls + 1
    /\ req' = [req EXCEPT ![r] =
                  LET q == [Begin("mine") EXCEPT !.player = player, !.scene = sceneId]
                  IN  IF sceneId \notin DOMAIN Scenes
                      THEN Finish(q, "SceneNotFound")
                      ELSE IF ~isAccessibleByPlayer(Scenes[sceneId], player.level)
                      THEN Finish(q, "SceneLocked")
                      ELSE [q EXCEPT !.pc = "m_auto"]]
    /\ UNCHANGED <<now, player, sessions, prev, carry>>

MineAutoRecover(r) ==
    LET q == req[r]
        newInst == autoRecoverEnergy(q.player, now)
        sc == Scenes[q.scene]
    IN  /\ q.pc = "m_auto"
        /\ player' = SaveChanged(player, q.player, newInst)
        /\ IF ~hasEnoughEnergy(newInst, sc.energy_cost)
           THEN req' = [req EXCEPT ![r] =
                           Finish([q EXCEPT !.player = newInst], "InsufficientEnergy")]
           ELSE \E rw \in calculateMiningReward(sc, newInst.level, TRUE) :
                  req' = [req EXCEPT ![r] =
                             [q EXCEPT !.pc = "m_decrement", !.player = newInst,
                                       !.rewards =
                                           [cycles |-> 1, coins |-> rw.coins,
                                            experience |-> rw.experience,
                                            energy |-> sc.energy_cost,
                                            items |-> rw.items]]]
        /\ UNCHANGED <<now, sessions, prev, calls, carry>>

MineDecrement(r) ==
    /\ req[r].pc = "m_decrement"
    /\ DecrementEnergy(r, req[r].rewards.energy, "m_touch", "m_experience")
    /\ UNCHANGED <<now, sessions, prev, calls, carry>>

MineTouch(r) ==
    /\ req[r].pc = "m_touch"
    /\ TouchEnergy(r, "m_experience")
    /\ UNCHANGED <<now, sessions, prev, calls, carry>>

MineAddExperience(r) ==
    LET q == req[r]
        newInst == PlayerSet(q.player, AddExperienceValues(q.player, q.rewards.experience))
    IN  /\ q.pc = "m_experience"
        /\ player' = SaveChanged(player, q.player, newInst)
        /\ req' = [req EXCEPT ![r] = [q EXCEPT !.pc = "m_coins", !.player = newInst]]
        /\ UNCHANGED <<now, sessions, prev, calls, carry>>

\* addCoins: the two increments
MineAddCoins(r) ==
    /\ req[r].pc = "m_coins"
    /\ player' = [player EXCEPT !.coins = @ + req[r].rewards.coins]
    /\ req' = [req EXCEPT ![r].pc = "m_total"]
    /\ UNCHANGED <<now, sessions, prev, calls, carry>>

MineAddTotalCoins(r) ==
    /\ req[r].pc = "m_total"
    /\ player' = [player EXCEPT !.total_coins_earned = @ + req[r].rewards.coins]
    /\ req' = [req EXCEPT ![r].pc = "m_count"]
    /\ UNCHANGED <<now, sessions, prev, calls, carry>>

\* incrementMiningCount, then player.reload()
MineIncrementCount(r) ==
    LET q == req[r] IN
    /\ q.pc = "m_count"
    /\ player' = [player EXCEPT !.total_mining_count = @ + 1]
    /\ req' = [req EXCEPT ![r] = Finish([q EXCEPT !.player = player'], "ok")]
    /\ UNCHANGED <<now, sessions, prev, calls, carry>>

(* ShopService.purchaseItem, of a consumable *)
PurchaseFindPlayer(r, shopItem) ==
    /\ req[r].pc = "idle"
    /\ calls < MaxEnergyCalls
    /\ calls' = calls + 1
    /\ req' = [req EXCEPT ![r] = [Begin("purchase") EXCEPT !.pc = "p_restore",
                                                           !.player = player,
                                                           !.item = shopItem]]
    /\ UNCHANGED <<now, player, sessions, prev, carry>>

PurchaseRestore(r) ==
    LET q == req[r]
        energyRestored == Min(q.item.energy_restore,
                              q.player.max_energy - q.player.current_energy)
        newInst == IF q.item.energy_restore > 0
                   THEN PlayerSet(q.player,
                                  RecoverEnergyValues(q.player, energyRestored, now))
                   ELSE q.player
    IN  /\ q.pc = "p_restore"
        /\ player' = SaveChanged(player, q.player, newInst)
        /\ req' = [req EXCEPT ![r] = [q EXCEPT !.pc = "p_max", !.player = newInst]]
        /\ UNCHANGED <<now, sessions, prev, calls, carry>>

PurchaseRaiseMax(r) ==
    LET q == req[r]
        newInst == IF q.item.max_energy_increase > 0
                   THEN PlayerSet(q.player,
                            [max_energy |-> q.player.max_energy
                                            + q.item.max_energy_increase])
                   ELSE q.player
    IN  /\ q.pc = "p_max"
        /\ player' = SaveChanged(player, q.player, newInst)
        /\ req' = [req EXCEPT ![r] = [q EXCEPT !.pc = "p_coins", !.player = newInst]]
        /\ UNCHANGED <<now, sessions, prev, calls, carry>>

\* spendCoins, then player.reload()
PurchaseSpendCoins(r) ==
    LET q == req[r] IN
    /\ q.pc = "p_coins"
    /\ player' = IF q.player.coins < q.item.price THEN player
                 ELSE [player EXCEPT !.coins = @ - q.item.price]
    /\ req' = [req EXCEPT ![r] = Finish([q EXCEPT !.player = player'], "ok")]
    /\ UNCHANGED <<now, sessions, prev, calls, carry>>

(* PlayerData.consumeEnergy(amount), called on a player just loaded *)
ConsumeCall(r, amount) ==
    /\ req[r].pc = "idle"
    /\ calls < MaxCalls
    /\ calls' = calls + 1
    /\ req' = [req EXCEPT ![r] =
                  [Begin("consume") EXCEPT !.pc = "c_decrement", !.player = player,
                                           !.rewards = [ZeroRewards EXCEPT
                                                            !.energy = amount]]]
    /\ UNCHANGED <<now, player, sessions, prev, carry>>

ConsumeDecrement(r) ==
    /\ req[r].pc = "c_decrement"
    /\ DecrementEnergy(r, req[r].rewards.energy, "c_touch", "c_false")
    /\ UNCHANGED <<now, sessions, prev, calls, carry>>

ConsumeTouch(r) ==
    /\ req[r].pc = "c_touch"
    /\ TouchEnergy(r, "c_true")
    /\ UNCHANGED <<now, sessions, prev, calls, carry>>

ConsumeReturn(r) ==
    /\ req[r].pc \in {"c_true", "c_false"}
    /\ req' = [req EXCEPT ![r] =
                  Finish(req[r], IF req[r].pc = "c_true" THEN "true" ELSE "false")]
    /\ UNCHANGED <<now, player, sessions, prev, calls, carry>>

\* time passes: half a recovery interval
EnergyTick ==
    /\ now + RecoveryInterval \div 2 <= MaxHalfRecoveries * (RecoveryInterval \div 2)
    /\ now' = now + RecoveryInterval \div 2
    /\ UNCHANGED <<player, sessions, req, prev, calls, carry>>

(* two runs of reconciliations side by side, from one player row: `split`
   reconciles on the way and at the end, `whole` at the end only *)
CarryTick ==
    /\ carry.phase \in {"start", "split"}
    /\ now < 2 * RecoveryInterval
    /\ now' = now + RecoveryInterval \div 2
    /\ UNCHANGED <<player, sessions, req, prev, calls, carry>>

CarryReconcile ==
    /\ carry.phase = "start"
    /\ now > 0 /\ now < 2 * RecoveryInterval
    /\ carry' = [carry EXCEPT !.phase = "split", !.first = now,
                              !.split = autoRecoverEnergy(@, now)]
    /\ UNCHANGED <<now, player, sessions, req, prev, calls>>

CarryFinish ==
    /\ carry.phase = "split"
    /\ now = 2 * RecoveryInterval
    /\ carry' = [carry EXCEPT !.phase = "done",
                              !.split = autoRecoverEnergy(@, now),
                              !.whole = autoRecoverEnergy(@, now)]
    /\ UNCHANGED <<now, player, sessions, req, prev, calls>>

(* calculateOfflineRewards, the count of cycles alone, on the first session *)
AwayCalculate ==
    /\ carry.phase = "away"
    /\ carry' = [phase |-> "cycles",
                 cycles |-> offlineCycles(sessions[1], player,
                                          Scenes[sessions[1].scene_id], now)]
    /\ UNCHANGED <<now, player, sessions, req, prev, calls>>

(* ------------------------------ the runs ------------------------------ *)
NewPlayer(level, energy) ==
    [level |-> level, experience |-> 0, coins |-> 100,
     current_energy |-> energy, max_energy |-> MaxEnergyDefault,
     last_energy_update |-> 0, total_mining_count |-> 0,
     total_coins_earned |-> 0, total_experience_gained |-> 0,
     highest_level_reached |-> level]

NoCarry == [phase |-> "off"]

Init ==
    /\ now = 0
    /\ player \in {NewPlayer(l, e) : l \in {4, 5}, e \in {1, 5, 7}}
    /\ sessions = <<>>
    /\ req = [r \in Reqs |-> IdleReq]
    /\ prev = NoPrev
    /\ calls = 0
    /\ carry = NoCarry

Step(r) ==
    \/ \E sceneId \in SceneIds : StartFindPlayer(r, sceneId)
    \/ StartCheckActive(r)
    \/ StartFindScene(r)
    \/ StartDecrement(r)
    \/ StartTouch(r)
    \/ StartSessionFind(r)
    \/ StartSessionCreate(r)
    \/ StopGetActive(r)
    \/ SweepFindAll(r)
    \/ SweepNothing(r)
    \/ ApplyUpdateSession(r)
    \/ ApplyDecrement(r)
    \/ ApplyTouch(r)
    \/ ApplyAddCoins(r)
    \/ ApplyAddTotalCoins(r)
    \/ ApplyAddExperience(r)
    \/ ApplyIncrementCount(r)
    \/ StopClose(r)

InfoStep(r) ==
    \/ InfoFindPlayer(r)
    \/ InfoGetActive(r)
    \/ InfoEstimate(r)

\* requests of one player served concurrently
Next == TickRace \/ \E r \in Reqs : (Step(r) \/ Return(r))

Spec == Init /\ [][Next]_vars

\* one request at a time
NextSeq == Tick \/ Step(1) \/ InfoStep(1) \/ ReturnNoted(1)

SpecSeq == Init /\ [][NextSeq]_vars

FaultStep(r) == StartCreateFails(r) \/ ApplyFails(r)

\* one request at a time, over a database whose queries may fail
NextFault == Tick \/ Step(1) \/ FaultStep(1) \/ ReturnNoted(1)

SpecFault == Init /\ [][NextFault]_vars

\* a player a few points of experience short of level 6
InitLevelUp ==
    /\ now = 0
    /\ player \in {[NewPlayer(5, e) EXCEPT !.experience = x,
                                          !.total_experience_gained = x] :
                      e \in {5, 7}, x \in {480, 500}}
    /\ sessions = <<>>
    /\ req = [r \in Reqs |-> IdleReq]
    /\ prev = NoPrev
    /\ calls = 0
    /\ carry = NoCarry

SpecLevelUp == InitLevelUp /\ [][NextSeq]_vars

MaxOfflineMs == MaxOfflineHours * 3600000

\* the energy that pays for the cycles of MaxOfflineHours on scene 1
AwayEnergy == Scenes[1].energy_cost * (MaxOfflineMs \div CycleInterval)

\* a session started at 0 and left alone: for a few recovery intervals by a
\* player short of energy, or for about MaxOfflineHours by a player whose
\* maximum energy was raised enough to pay for all of it
InitAway ==
    /\ \/ /\ now \in {j * (RecoveryInterval \div 2) : j \in 0 .. AwaySlack}
          /\ player \in {NewPlayer(5, e) : e \in 0 .. AwaySlack}
       \/ /\ now \in {MaxOfflineMs + j * (CycleInterval \div 2) :
                          j \in -AwaySlack .. AwaySlack}
          /\ player \in {[NewPlayer(5, AwayEnergy + i) EXCEPT
                               !.max_energy = AwayEnergy + 2 * AwaySlack] :
                              i \in -AwaySlack .. AwaySlack}
    /\ sessions = <<NewSession(1, PlayerId, 1, 0)>>
    /\ req = [r \in Reqs |-> IdleReq]
    /\ prev = NoPrev
    /\ calls = 0
    /\ carry = [phase |-> "away"]

NextAway == AwayCalculate

SpecAway == InitAway /\ [][NextAway]_vars

InitConsume ==
    /\ now = 0
    /\ player \in {NewPlayer(5, e) : e \in 0 .. MaxConsume}
    /\ sessions = <<>>
    /\ req = [r \in Reqs |-> IdleReq]
    /\ prev = NoPrev
    /\ calls = 0
    /\ carry = NoCarry

\* consumeEnergy called time after time, one call at a time
NextConsume ==
    \/ Tick
    \/ \E amount \in 0 .. MaxConsume + 1 : ConsumeCall(1, amount)
    \/ ConsumeDecrement(1)
    \/ ConsumeTouch(1)
    \/ ConsumeReturn(1)
    \/ ReturnNoted(1)

SpecConsume == InitConsume /\ [][NextConsume]_vars

InitEnergy ==
    /\ now = 0
    /\ player \in {NewPlayer(5, e) : e \in {3, 99}}
    /\ sessions = <<>>
    /\ req = [r \in Reqs |-> IdleReq]
    /\ prev = NoPrev
    /\ calls = 0
    /\ carry = NoCarry

EnergyStep(r) ==
    \/ RecoverFindPlayer(r)
    \/ RecoverAuto(r)
    \/ \E sceneId \in {1, 2} : MineFindPlayer(r, sceneId)
    \/ MineAutoRecover(r)
    \/ MineDecrement(r)
    \/ MineTouch(r)
    \/ MineAddExperience(r)
    \/ MineAddCoins(r)
    \/ MineAddTotalCoins(r)
    \/ MineIncrementCount(r)
    \/ \E shopItem \in ShopItems : PurchaseFindPlayer(r, shopItem)
    \/ PurchaseRestore(r)
    \/ PurchaseRaiseMax(r)
    \/ PurchaseSpendCoins(r)

\* the requests that touch the energy, served concurrently
NextEnergy == EnergyTick \/ \E r \in Reqs : (EnergyStep(r) \/ Return(r))

SpecEnergy == InitEnergy /\ [][NextEnergy]_vars

\* a session on scene 1 has just been started and paid for
InitMix ==
    /\ now = 0
    /\ player \in {NewPlayer(5, e) : e \in {3, 5}}
    /\ sessions = <<NewSession(1, PlayerId, 1, 0)>>
    /\ req = [r \in Reqs |-> IdleReq]
    /\ prev = NoPrev
    /\ calls = 0
    /\ carry = NoCarry

MineStep(r) ==
    \/ MineFindPlayer(r, 1)
    \/ MineAutoRecover(r)
    \/ MineDecrement(r)
    \/ MineTouch(r)
    \/ MineAddExperience(r)
    \/ MineAddCoins(r)
    \/ MineAddTotalCoins(r)
    \/ MineIncrementCount(r)

ReplayStep(r) ==
    \/ StopGetActive(r)
    \/ SweepFindAll(r)
    \/ SweepNothing(r)
    \/ ApplyUpdateSession(r)
    \/ ApplyDecrement(r)
    \/ ApplyTouch(r)
    \/ ApplyAddCoins(r)
    \/ ApplyAddTotalCoins(r)
    \/ ApplyAddExperience(r)
    \/ ApplyIncrementCount(r)
    \/ StopClose(r)

\* a manual mining request and a replay (sweep or stop), served concurrently
NextMix == TickRace \/ MineStep(1) \/ ReplayStep(2)

SpecMix == InitMix /\ [][NextMix]_vars

InitCarry ==
    /\ now = 0
    /\ \E e \in 0 .. MaxCarryEnergy :
         carry = [phase |-> "start", first |-> 0,
                  split |-> NewPlayer(5, e), whole |-> NewPlayer(5, e)]
    /\ player = NewPlayer(5, 0)
    /\ sessions = <<>>
    /\ req = [r \in Reqs |-> IdleReq]
    /\ prev = NoPrev
    /\ calls = 0

NextCarry == CarryTick \/ CarryReconcile \/ CarryFinish

SpecCarry == InitCarry /\ [][NextCarry]_vars

(* ------------------------------- claims ------------------------------- *)
\* the replay of q has credited the player (addCoins has run)
Credited(q) ==
    /\ q.rewards.cycles > 0
    /\ q.pc \in {"a_total", "a_experience", "a_count", "t_close", "done"}

\* the replay of q is over (the stop has not closed the session yet)
Replayed(q) ==
    \/ q.pc \in {"done_ok", "t_close"}
    \/ q.kind = "sweep" /\ q.pc = "done"

UnchangedSince(q) == player = q.pre.player /\ sessions = q.pre.sessions

\* the watermark of the session of q when q loaded it
LoadedWatermark(q) == q.pre.sessions[q.session.id].last_calculation

\* C1: a stop called right after a successful stop fails with "no active
\* session" and leaves the player row and the session rows as the first left them
C1_SecondStopFails ==
    \A r \in Reqs :
        (/\ req[r].kind = "stop" /\ req[r].pc = "done"
         /\ prev.kind = "stop" /\ prev.result = "ok")
        => (req[r].result = "NoActiveSession" /\ UnchangedSince(req[r]))

C1_Witness ==
    \E r \in Reqs :
        /\ req[r].kind = "stop" /\ req[r].pc = "done"
        /\ req[r].result = "NoActiveSession"
        /\ prev.kind = "stop" /\ prev.result = "ok" /\ prev.rewards.cycles > 0

\* C2: two concurrent stops of one player never both credit the player for the
\* same stretch of elapsed time of the same session
C2_StopsApplyOnce ==
    \A r1, r2 \in Reqs :
        (/\ r1 # r2
         /\ req[r1].kind = "stop" /\ Credited(req[r1])
         /\ req[r2].kind = "stop" /\ Credited(req[r2])
         /\ req[r1].session.id = req[r2].session.id)
        => LoadedWatermark(req[r1]) # LoadedWatermark(req[r2])

\* C3: the player never has two sessions with is_active = true, whatever the
\* interleaving of concurrent starts
C3_OneActiveSession == Cardinality(ActiveIds(sessions, PlayerId)) <= 1

C3_Witness ==
    \E r1, r2 \in Reqs :
        /\ req[r1].kind = "start" /\ req[r1].pc = "done" /\ req[r1].result = "ok"
        /\ req[r2].kind = "start" /\ req[r2].pc = "done"
        /\ req[r2].thrown = "UniqueViolation"
        /\ Cardinality(ActiveIds(sessions, PlayerId)) = 1

\* C4: a replay called at the very time of the replay before it completes no
\* cycle, yields nothing, and changes neither the session nor the player
C4_SecondReplayIsZero ==
    \A r \in Reqs :
        (/\ req[r].kind \in {"sweep", "stop"} /\ req[r].session.id # 0
         /\ prev.kind = "sweep" /\ prev.result = "ok"
         /\ prev.called = req[r].called)
        => /\ req[r].rewards = ZeroRewards
           /\ Replayed(req[r]) => UnchangedSince(req[r])

C4_Witness ==
    \E r \in Reqs :
        /\ req[r].kind = "sweep" /\ req[r].pc = "done" /\ req[r].session.id # 0
        /\ prev.kind = "sweep" /\ prev.result = "ok"
        /\ prev.called = req[r].called /\ prev.rewards.cycles > 0

\* C5: the stored energy of the player is never below 0 and never above the
\* stored maximum, whatever regeneration, consumption and raise of the maximum
\* were called
C5_EnergyWithinCap ==
    /\ 0 <= player.current_energy
    /\ player.current_energy <= player.max_energy

\* C6: two reconciliations that split exactly two recovery intervals leave the
\* energy that one reconciliation after the two intervals leaves
C6_SplitEqualsWhole ==
    carry.phase = "done"
    => carry.split.current_energy = carry.whole.current_energy

\* C7: getOfflineMiningInfo changes no row: from its call to its return the
\* player row and the session rows are what they were when it was called
C7_PeekChangesNothing ==
    \A r \in Reqs : req[r].kind = "info" => UnchangedSince(req[r])

C7_Witness ==
    \E r \in Reqs :
        /\ req[r].kind = "info" /\ req[r].pc = "done" /\ req[r].result = "ok"
        /\ req[r].rewards.cycles > 0
        /\ prev.kind = "info" /\ prev.result = "ok"

\* C8: two estimates of getOfflineMiningInfo made with no time passing between
\* them are the same: cycles, coins, experience and number of items
C8_SameEstimate ==
    \A r \in Reqs :
        (/\ req[r].kind = "info" /\ req[r].pc = "done" /\ req[r].result = "ok"
         /\ prev.kind = "info" /\ prev.result = "ok" /\ prev.at = req[r].at)
        => /\ req[r].rewards.cycles = prev.rewards.cycles
           /\ req[r].rewards.coins = prev.rewards.coins
           /\ req[r].rewards.experience = prev.rewards.experience
           /\ Len(req[r].rewards.items) = Len(prev.rewards.items)

\* C9: a replay that the player's energy limits to fewer cycles than the elapsed
\* time allows completes the affordable cycles, and leaves less energy than one
\* more cycle costs
C9_BoundedByEnergy ==
    \A r \in Reqs :
        LET q == req[r]
            s == q.pre.sessions[q.session.id]
            affordable == maxCyclesByEnergy(q.pre.player, Scenes[q.scene])
        IN  (/\ q.kind \in {"sweep", "stop"} /\ q.session.id # 0
             /\ q.pc \in {"a_touch", "a_coins", "a_total", "a_experience",
                          "a_count", "t_close", "done_ok", "done"}
             /\ affordable < possibleCycles(s, q.called))
            => /\ q.rewards.cycles = affordable
               /\ player.current_energy < Scenes[q.scene].energy_cost

C9_Witness ==
    \E r \in Reqs :
        LET q == req[r] IN
        /\ q.kind = "stop" /\ q.session.id # 0 /\ q.pc = "done"
        /\ q.rewards.cycles >= 1
        /\ q.rewards.cycles < possibleCycles(q.pre.sessions[q.session.id], q.called)

\* C10: a start creates a session only when, at the call, the player had no
\* active session, had the level of auto mining and of the scene, the scene was
\* active, and the energy paid for one cycle; otherwise it fails and no session
\* is created
StartAllowed(pre, sceneId) ==
    /\ ActiveIds(pre.sessions, PlayerId) = {}
    /\ pre.player.level >= MinLevelRequired
    /\ sceneId \in DOMAIN Scenes
    /\ Scenes[sceneId].is_active
    /\ pre.player.level >= Scenes[sceneId].required_level
    /\ pre.player.current_energy >= Scenes[sceneId].energy_cost

C10_StartPreconditions ==
    \A r \in Reqs :
        (req[r].kind = "start" /\ req[r].pc = "done")
        => IF StartAllowed(req[r].pre, req[r].scene)
           THEN req[r].result = "ok"
                => /\ Len(sessions) = Len(req[r].pre.sessions) + 1
                   /\ sessions[Len(sessions)].is_active
           ELSE req[r].result # "ok" /\ sessions = req[r].pre.sessions

C10_Witness ==
    \E r \in Reqs :
        /\ req[r].kind = "start" /\ req[r].pc = "done" /\ req[r].result = "ok"
        /\ Len(sessions) = 2

\* C11: a start that reports failure leaves the player's energy, the time of the
\* last energy update and the session rows as they were when it was called
C11_FailedStartChangesNothing ==
    \A r \in Reqs :
        (req[r].kind = "start" /\ req[r].pc = "done" /\ req[r].result # "ok")
        => /\ player.current_energy = req[r].pre.player.current_energy
           /\ player.last_energy_update = req[r].pre.player.last_energy_update
           /\ sessions = req[r].pre.sessions

\* C12: a start that succeeds takes no energy from the player: energy is taken
\* only by the replays, cycle by cycle
C12_StartDeductsNothing ==
    \A r \in Reqs :
        (req[r].kind = "start" /\ req[r].pc = "done" /\ req[r].result = "ok")
        => player.current_energy = req[r].pre.player.current_energy

\* C13: the rewards a successful stop reports are the coins, the experience and
\* the items the session gathered over its whole life
C13_StopReportsWholeSession ==
    \A r \in Reqs :
        LET q == req[r] IN
        (q.kind = "stop" /\ q.pc = "done" /\ q.result = "ok")
        => /\ q.rewards.coins = sessions[q.session.id].coins_earned
           /\ q.rewards.experience = sessions[q.session.id].experience_gained
           /\ q.rewards.items = sessions[q.session.id].items_found

\* C14: a successful stop whose replay completed k cycles leaves the player with
\* the coins of before plus the replay's coins plus 50 per level gained, the
\* experience of before plus the replay's, the energy of before less k times the
\* cost, and leaves the session closed with its end time set
C14_StopAppliesExactDelta ==
    \A r \in Reqs :
        LET q == req[r]
            before == q.pre.player
        IN  (q.kind = "stop" /\ q.pc = "done" /\ q.result = "ok")
            => /\ player.coins = before.coins + q.rewards.coins
                                  + (player.level - before.level) * LevelUpCoins
               /\ player.experience = before.experience + q.rewards.experience
               /\ player.current_energy = before.current_energy
                       - q.rewards.cycles * Scenes[q.scene].energy_cost
               /\ ~sessions[q.session.id].is_active
               /\ sessions[q.session.id].end_time # Null

\* C15: a stop whose replay met a failing storage step leaves the session active,
\* with the watermark and the totals it had, and leaves the player unchanged
C15_FailedApplyChangesNothing ==
    \A r \in Reqs :
        LET q == req[r] IN
        (q.kind = "stop" /\ q.pc = "done" /\ q.thrown = "StorageError")
        => /\ sessions[q.session.id] = q.pre.sessions[q.session.id]
           /\ sessions[q.session.id].is_active
           /\ player = q.pre.player

\* C16: a session is created active, stops being active only in the closing
\* step of a stop, and once it is not active it never is again; a replay, also
\* one that completes no cycle for lack of energy, leaves it active
StatusStep ==
    \A id \in 1 .. Len(sessions') :
        IF id > Len(sessions)
        THEN sessions'[id].is_active
        ELSE /\ ~sessions[id].is_active => ~sessions'[id].is_active
             /\ (sessions[id].is_active /\ ~sessions'[id].is_active)
                => \E r \in Reqs : /\ req[r].kind = "stop"
                                   /\ req[r].pc = "t_close"
                                   /\ req'[r].pc = "done"
                                   /\ req[r].session.id = id

CreditedBy(r, id) ==
    IF Credited(req[r]) /\ req[r].session.id = id THEN req[r].rewards.cycles ELSE 0

\* C17: the cycles of a session credited to the player (here: by the sweep and
\* the stop being served) never exceed the whole intervals elapsed since the
\* session started
C17_NoTimeReplayedTwice ==
    \A id \in 1 .. Len(sessions) :
        CreditedBy(1, id) + CreditedBy(2, id)
            <= (now - sessions[id].start_time) \div CycleInterval

C19_CyclesFromRegeneratedEnergy ==
    LET energyNow == Min(player.current_energy + calculateEnergyRecovery(player, now),
                         player.max_energy)
    IN  carry.phase = "cycles"
        => carry.cycles =
               Min(possibleCycles(sessions[1], now),
                   energyNow \div Scenes[sessions[1].scene_id].energy_cost)

\* C20: a replay that completed k >= 1 cycles leaves the session's watermark at
\* its value of before plus k cycle intervals
C20_WatermarkAdvancesByCycles ==
    \A r \in Reqs :
        LET q == req[r] IN
        (/\ q.kind \in {"sweep", "stop"} /\ q.session.id # 0
         /\ q.rewards.cycles >= 1
         /\ q.pc \in {"a_decrement", "a_touch", "a_coins", "a_total", "a_experience",
                      "a_count", "t_close", "done"})
        => sessions[q.session.id].last_calculation
               = LoadedWatermark(q) + q.rewards.cycles * CycleInterval

\* C21: a consumeEnergy that succeeded leaves last_energy_update as it was
\* when it was called
C21_ConsumeKeepsTimestamp ==
    \A r \in Reqs :
        (req[r].kind = "consume" /\ req[r].pc = "done" /\ req[r].result = "true")
        => player.last_energy_update = req[r].pre.player.last_energy_update

\* C22: consumeEnergy(amount) with amount above the player's energy returns
\* false and leaves the energy and last_energy_update as they were; with amount
\* within the energy it takes exactly amount off the energy
C22_ConsumeAllOrNothing ==
    \A r \in Reqs :
        LET q == req[r]
            before == q.pre.player
        IN  (q.kind = "consume" /\ q.pc = "done")
            => IF q.rewards.energy > before.current_energy
               THEN /\ q.result = "false"
                    /\ player.current_energy = before.current_energy
                    /\ player.last_energy_update = before.last_energy_update
               ELSE /\ q.result = "true"
                    /\ player.current_energy = before.current_energy - q.rewards.energy

C22_Witness ==
    \E r \in Reqs :
        /\ req[r].kind = "consume" /\ req[r].pc = "done" /\ req[r].result = "false"
        /\ req[r].rewards.energy = player.current_energy + 1
        /\ prev.kind = "consume" /\ prev.result = "true" /\ prev.rewards.energy > 0
        /\ now > 0

\* C23: a replay that completes no cycle, for lack of time or of energy, is
\* not an error, returns the zero delta and leaves the player row and the
\* session rows, last_calculation included, as they were
C23_ZeroCycleReplayIsNoOp ==
    \A r \in Reqs :
        LET q == req[r] IN
        (q.kind \in {"stop", "sweep"} /\ q.session.id # 0 /\ q.rewards.cycles = 0)
        => /\ q.rewards = ZeroRewards
           /\ q.thrown = "none"
           /\ q.pc = "done" => q.result = "ok" /\ player = q.pre.player
           /\ Replayed(q) => UnchangedSince(q)

C23_Witness ==
    \E r \in Reqs :
        LET q == req[r] IN
        /\ q.kind = "sweep" /\ q.pc = "done" /\ q.session.id # 0
        /\ q.rewards.cycles = 0
        /\ q.called > LoadedWatermark(q)
        /\ possibleCycles(q.pre.sessions[q.session.id], q.called) = 0
        /\ maxCyclesByEnergy(q.pre.player, Scenes[q.scene]) >= 1

\* C24: from one state to the next no session loses mining cycles, coins
\* earned, experience gained, energy consumed, items, or watermark, however the
\* sweeps and the stops on it interleave
C24_SessionTotalsNeverDecrease ==
    [][\A id \in 1 .. Len(sessions) :
          /\ sessions'[id].mining_cycles >= sessions[id].mining_cycles
          /\ sessions'[id].coins_earned >= sessions[id].coins_earned
          /\ sessions'[id].experience_gained >= sessions[id].experience_gained
          /\ sessions'[id].energy_consumed >= sessions[id].energy_consumed
          /\ Len(sessions'[id].items_found) >= Len(sessions[id].items_found)
          /\ sessions'[id].last_calculation >= sessions[id].last_calculation]_vars

\* C25: while a manual mining request and a replay (sweep or stop) of the same
\* player interleave, the stored energy is never negative, and once both have
\* reported success the energy and the coins are the values before the two
\* adjusted by the deltas the two reported
C25_NoLostUpdates ==
    /\ player.current_energy >= 0
    /\ \A r1, r2 \in Reqs :
          LET m == req[r1]
              a == req[r2]
          IN  (/\ m.kind = "mine" /\ m.pc = "done" /\ m.result = "ok"
               /\ a.kind \in {"stop", "sweep"} /\ a.pc = "done" /\ a.result = "ok")
              => /\ player.current_energy =
                       Max(m.pre.player.current_energy, a.pre.player.current_energy)
                           - (m.rewards.energy + a.rewards.energy)
                 /\ player.coins =
                       Min(m.pre.player.coins, a.pre.player.coins)
                           + (m.rewards.coins + a.rewards.coins)

\* C26: a step that raises the level of the player raises max_energy too, and
\* a step that raises max_energy does not lower current_energy
C26_MaxEnergyGrowsWithLevel ==
    [][/\ player'.level > player.level => player'.max_energy > player.max_energy
       /\ player'.max_energy > player.max_energy
              => player'.current_energy >= player.current_energy]_vars

\* C27: every step leaves every session with energy_consumed = mining_cycles
\* times the energy cost of its scene, and a session just created has no cycle,
\* no coins, no experience and no energy accumulated
C27_SessionAccounting ==
    [][\A id \in 1 .. Len(sessions') :
          LET s == sessions'[id] IN
          /\ s.energy_consumed = s.mining_cycles * Scenes[s.scene_id].energy_cost
          /\ id > Len(sessions)
                => /\ s.mining_cycles = 0 /\ s.coins_earned = 0
                   /\ s.experience_gained = 0 /\ s.energy_consumed = 0]_vars

C27_Witness ==
    \E id \in 1 .. Len(sessions) :
        /\ sessions[id].mining_cycles >= 1
        /\ sessions[id].energy_consumed
              = sessions[id].mining_cycles * Scenes[sessions[id].scene_id].energy_cost
        /\ ~sessions[id].is_active
        /\ \E r \in Reqs : req[r].kind = "sweep" /\ req[r].pc = "a_touch"
                             /\ req[r].session.id = id

\* C28: a replay that completed k >= 1 cycles has added exactly k to the
\* total_mining_count of the player
C28_CountGrowsByCycles ==
    \A r \in Reqs :
        LET q == req[r] IN
        (/\ q.kind \in {"stop", "sweep"} /\ q.pc = "done" /\ q.result = "ok"
         /\ q.rewards.cycles >= 1)
        => player.total_mining_count
              = q.pre.player.total_mining_count + q.rewards.cycles

\* C29: once a session is closed no step changes its mining cycles, coins
\* earned, experience gained, energy consumed or watermark, and no step of a
\* sweep or stop that loaded it changes the player
C29_ClosedSessionFrozen ==
    [][\A id \in 1 .. Len(sessions) :
          ~sessions[id].is_active
          => /\ sessions'[id].mining_cycles = sessions[id].mining_cycles
             /\ sessions'[id].coins_earned = sessions[id].coins_earned
             /\ sessions'[id].experience_gained = sessions[id].experience_gained
             /\ sessions'[id].energy_consumed = sessions[id].energy_consumed
             /\ sessions'[id].last_calculation = sessions[id].last_calculation
             /\ \A r \in Reqs :
                   (/\ req[r].kind \in {"stop", "sweep"}
                    /\ req[r].session.id = id
                    /\ req'[r].pc # req[r].pc)
                   => player' = player]_vars

\* C30: a start called right after getOfflineMiningInfo reported canStart, with
\* nothing changed in between, for a scene that is active and unlocked at the
\* level of the player, succeeds
C30_PeekAndStartAgree ==
    \A r \in Reqs :
        LET q == req[r] IN
        (/\ q.kind = "start" /\ q.pc = "done"
         /\ prev.kind = "info" /\ prev.result = "canStart"
         /\ prev.called = q.called
         /\ q.scene \in DOMAIN Scenes
         /\ isAccessibleByPlayer(Scenes[q.scene], q.pre.player.level))
        => q.result = "ok"

====
